---------------------------- MODULE Spec2Model ----------------------------
(***************************************************************************)
(* Booking / inventory engine of the train reservation service.            *)
(*                                                                         *)
(* The store is the SQLite database behind SQLAlchemy sessions             *)
(* (app/database.py).  Every request handler of app/rest_api/routes.py is  *)
(* run by a worker thread with a session of its own.  The session is       *)
(* created with autoflush=False, so the pending INSERT / UPDATE statements *)
(* of a handler reach the database only inside db.commit(), which flushes  *)
(* them in one transaction; every SELECT before it reads the state that is *)
(* committed at the time the SELECT runs.  A handler is therefore a        *)
(* sequence of atomic steps, one per database round trip, and steps of     *)
(* different workers interleave.                                           *)
(***************************************************************************)
EXTENDS Integers, Sequences, FiniteSets, TLC

\* ---------------------------------------------------------------- bounds
NumWorkers == 2        \* worker threads handling requests concurrently
NumSeats == 1          \* seats produced by the seed generator
NumTrains == 1         \* trains produced by the seed generator
MaxReservations == 2   \* cap on the rows of the reservations table
NumClients == 1        \* clients seeded by initialize_database
EngineTrains == 2      \* trains of the stores the sequential engine starts from
EngineSeats == 3       \* seats of the stores the sequential engine starts from
MaxDay == 3            \* days on which a train can depart

Workers == 1 .. NumWorkers
SeatIds == 1 .. NumSeats
TrainIds == 1 .. NumTrains

\* request inputs: every id that exists and one that does not
SeatInputs == 1 .. (NumSeats + 1)
ClientInputs == 1 .. (NumClients + 1)
TicketInputs == {"Flexible", "NonFlexible", "Economy"}
StatusInputs == {"None", "Confirmed", "Cancelled"}

\* seed data of generate_random_trains_and_seats
stations == {"StationA", "StationB"}
seat_classes == {"First", "Business", "Standard"}

\* base_fares: one fare per class of a train, First above Business above Standard
base_fares(seat_class) ==
    CASE seat_class = "First" -> 250
      [] seat_class = "Business" -> 150
      [] OTHER -> 75

VARIABLES
    clients,        \* clients table: sequence of rows, client_id = index
    trains,         \* trains table: train_id -> row
    seats,          \* seats table: seat_id -> row
    reservations,   \* reservations table: sequence of rows, reservation_id = index
    pc,             \* per worker: the next database round trip of its handler
    req,            \* per worker: the request it is handling
    loaded,         \* per worker: what its session holds between round trips
    last            \* the request answered last and the response sent for it

store == <<clients, trains, seats, reservations>>
vars == <<clients, trains, seats, reservations, pc, req, loaded, last>>

\* ------------------------------------------------------------ responses
NoReq == [op |-> "none", client_id |-> 0, seat_id |-> 0, ticket_type |-> "None",
          reservation_id |-> 0, reservation_status |-> "None"]
NoResp == [code |-> 0, detail |-> "", body |-> <<>>]
NoLoad == [reservation_id |-> 0, seat_status |-> "None"]

Ok(body) == [code |-> 200, detail |-> "", body |-> body]
HTTPException(status_code, detail) == [code |-> status_code, detail |-> detail, body |-> <<>>]

\* ---------------------------------------------------------------- queries
\* db.query(Client).filter(Client.client_id == client_id).first()
ClientExists(client_id) == client_id \in DOMAIN clients

\* db.query(Seat).filter(Seat.seat_id == seat_id, Seat.status == "Available").first()
\* 0 stands for None.
AvailableSeat(seat_id) ==
    IF seat_id \in DOMAIN seats /\ seats[seat_id].status = "Available" THEN seat_id ELSE 0

\* db.query(Seat).filter(Seat.seat_id == seat_id).first()
SeatById(seat_id) == IF seat_id \in DOMAIN seats THEN seat_id ELSE 0

\* db.query(Reservation).filter(Reservation.reservation_id == reservation_id).first()
ReservationById(reservation_id) ==
    IF reservation_id \in DOMAIN reservations THEN reservation_id ELSE 0

\* train of a seat as the seed generator assigns it
TrainOf(seat_id) == ((seat_id - 1) % NumTrains) + 1

\* class of a seat of the seeded store
ClassOf(seat_id) ==
    CASE seat_id % 3 = 1 -> "Standard"
      [] seat_id % 3 = 2 -> "First"
      [] OTHER -> "Business"

\* Train(...) row of the seed generator: two different stations, the arrival
\* after the departure
TrainRow(departure_station, arrival_station, departure_datetime) ==
    [departure_station |-> departure_station,
     arrival_station |-> arrival_station,
     departure_datetime |-> departure_datetime,
     arrival_datetime |-> departure_datetime + 1]

\* Seat(...) row of the seed generator
SeatRow(train_id, seat_class, status) ==
    [train_id |-> train_id, seat_class |-> seat_class,
     fare |-> base_fares(seat_class), status |-> status]

\* the store after initialize_database
SeededClients == [i \in 1 .. NumClients |-> [username |-> "testuser"]]
SeededTrains == [t \in TrainIds |-> TrainRow("StationA", "StationB", t)]
SeededSeats == [s \in SeatIds |-> SeatRow(TrainOf(s), ClassOf(s), "Available")]

\* ------------------------------------------------------------------- Init
Init ==
    /\ clients = SeededClients
    /\ trains = SeededTrains
    /\ seats = SeededSeats
    /\ reservations = <<>>
    /\ pc = [w \in Workers |-> "idle"]
    /\ req = [w \in Workers |-> NoReq]
    /\ loaded = [w \in Workers |-> NoLoad]
    /\ last = [req |-> NoReq, resp |-> NoResp]

\* the handler of request q returns r: the response is sent, the session is
\* closed (get_db) and the worker thread is free again
Return(w, q, r) ==
    /\ pc' = [pc EXCEPT ![w] = "idle"]
    /\ req' = [req EXCEPT ![w] = NoReq]
    /\ loaded' = [loaded EXCEPT ![w] = NoLoad]
    /\ last' = [req |-> q, resp |-> r]

\* the handler of request q goes on to its next round trip, its session holding l
Goto(w, label, q, l) ==
    /\ pc' = [pc EXCEPT ![w] = label]
    /\ req' = [req EXCEPT ![w] = q]
    /\ loaded' = [loaded EXCEPT ![w] = l]
    /\ UNCHANGED last

\* A request is handed to a free thread of the pool; the threads are
\* interchangeable, so the lowest free one takes it.
Free(w) == pc[w] = "idle" /\ \A v \in Workers : v < w => pc[v] # "idle"

\* creates in flight that may still insert a row
PendingCreates ==
    Cardinality({w \in Workers : pc[w] \in {"create_client", "create_seat", "create_commit"}})

\* ------------------------------------------------------ create_reservation
\* CreateValidate with the client looked up before the ticket_type is validated
CreateValidateClientFirst(client_id, ticket_type) ==
    IF ~ClientExists(client_id)
    THEN HTTPException(404, "Client not found.")
    ELSE IF ticket_type \notin {"Flexible", "NonFlexible"}
    THEN HTTPException(400, "Invalid ticket type. Must be 'Flexible' or 'NonFlexible'.")
    ELSE NoResp

\* routes.py 211-218: ticket_type, then the client.  NoResp: both checks pass.
CreateValidate(client_id, ticket_type) ==
    IF ticket_type \notin {"Flexible", "NonFlexible"}
    THEN HTTPException(400, "Invalid ticket type. Must be 'Flexible' or 'NonFlexible'.")
    ELSE IF ~ClientExists(client_id)
    THEN HTTPException(404, "Client not found.")
    ELSE NoResp

\* CreateSeatCheck that tells a taken seat from a missing one
CreateSeatCheckSplit(seat_id) ==
    IF SeatById(seat_id) = 0
    THEN HTTPException(404, "Seat not found.")
    ELSE IF AvailableSeat(seat_id) = 0
    THEN HTTPException(409, "Seat already reserved.")
    ELSE NoResp

\* CreateSeatCheck that also refuses a seat that has a reservation of any
\* status (Seat.reservation read as one-to-one over the whole history)
CreateSeatCheckNeverBooked(seat_id) ==
    IF \/ AvailableSeat(seat_id) = 0
       \/ \E i \in DOMAIN reservations : reservations[i].seat_id = seat_id
    THEN HTTPException(404, "Seat not found or already reserved.")
    ELSE NoResp

\* routes.py 220-223: the seat must exist and be Available.
CreateSeatCheck(seat_id) ==
    IF AvailableSeat(seat_id) = 0
    THEN HTTPException(404, "Seat not found or already reserved.")
    ELSE NoResp

\* CreateFlush that commits the INSERT alone
CreateFlushInsertOnly(client_id, seat_id, ticket_type) ==
    /\ reservations' = Append(reservations,
           [client_id |-> client_id, seat_id |-> seat_id,
            ticket_type |-> ticket_type, status |-> "Confirmed"])
    /\ UNCHANGED seats

\* routes.py 225-236: db.add(reservation); seat.status = "Reserved"; db.commit().
\* The flush emits INSERT INTO reservations and UPDATE seats SET status = 'Reserved'
\* WHERE seat_id = ? (the loaded value was Available) in one transaction.
CreateFlush(client_id, seat_id, ticket_type) ==
    /\ reservations' = Append(reservations,
           [client_id |-> client_id, seat_id |-> seat_id,
            ticket_type |-> ticket_type, status |-> "Confirmed"])
    /\ seats' = [seats EXCEPT ![seat_id].status = "Reserved"]

\* The attributes were expired by the commit and are read back from the database.
\* ReservationRecord with the id of the seat in the place of the id of its train
ReservationRecordSeatId(reservation_rows, seat_rows, reservation_id) ==
    LET r == reservation_rows[reservation_id] IN
    [reservation_id |-> reservation_id,
     client_id |-> r.client_id,
     seat_id |-> r.seat_id,
     train_id |-> r.seat_id,
     ticket_type |-> r.ticket_type,
     status |-> r.status]

\* routes.py 239-246 / 328-335: the response record of a reservation row
ReservationRecord(reservation_rows, seat_rows, reservation_id) ==
    LET r == reservation_rows[reservation_id] IN
    [reservation_id |-> reservation_id,
     client_id |-> r.client_id,
     seat_id |-> r.seat_id,
     train_id |-> seat_rows[r.seat_id].train_id,
     ticket_type |-> r.ticket_type,
     status |-> r.status]

ReservationResponse(reservation_id) ==
    ReservationRecord(reservations, seats, reservation_id)

CreateRequest(client_id, seat_id, ticket_type) ==
    [NoReq EXCEPT !.op = "create", !.client_id = client_id,
                  !.seat_id = seat_id, !.ticket_type = ticket_type]

\* a POST /reservations request reaches a free worker
CreateReceive(w, client_id, seat_id, ticket_type) ==
    /\ Free(w)
    /\ Len(reservations) + PendingCreates < MaxReservations
    /\ Goto(w, "create_client", CreateRequest(client_id, seat_id, ticket_type), NoLoad)
    /\ UNCHANGED store

CreateQueryClient(w) ==
    /\ pc[w] = "create_client"
    /\ LET r == CreateValidate(req[w].client_id, req[w].ticket_type) IN
       IF r # NoResp THEN Return(w, req[w], r) ELSE Goto(w, "create_seat", req[w], NoLoad)
    /\ UNCHANGED store

CreateQuerySeat(w) ==
    /\ pc[w] = "create_seat"
    /\ LET r == CreateSeatCheck(req[w].seat_id) IN
       IF r # NoResp THEN Return(w, req[w], r) ELSE Goto(w, "create_commit", req[w], NoLoad)
    /\ UNCHANGED store

CreateCommit(w) ==
    /\ pc[w] = "create_commit"
    /\ CreateFlush(req[w].client_id, req[w].seat_id, req[w].ticket_type)
    /\ Goto(w, "create_respond", req[w],
            [reservation_id |-> Len(reservations) + 1, seat_status |-> "Reserved"])
    /\ UNCHANGED <<clients, trains>>

CreateRespond(w) ==
    /\ pc[w] = "create_respond"
    /\ Return(w, req[w], Ok(<<ReservationResponse(loaded[w].reservation_id)>>))
    /\ UNCHANGED store

\* ------------------------------------------------------ cancel_reservation
\* CancelValidate without the check of the status
CancelValidateNoStatus(reservation_id) ==
    IF ReservationById(reservation_id) = 0
    THEN HTTPException(404, "Reservation not found.")
    ELSE NoResp

\* routes.py 307-314: the reservation must exist and not be Cancelled.
CancelValidate(reservation_id) ==
    IF ReservationById(reservation_id) = 0
    THEN HTTPException(404, "Reservation not found.")
    ELSE IF reservations[reservation_id].status = "Cancelled"
    THEN HTTPException(400, "Reservation is already cancelled.")
    ELSE NoResp

\* CancelFlush with the seat update left out
CancelFlushKeepSeat(reservation_id, seat_status) ==
    /\ reservations' = [reservations EXCEPT ![reservation_id].status = "Cancelled"]
    /\ UNCHANGED seats

\* CancelFlush that flips the status it finds in the row
CancelFlushToggle(reservation_id, seat_status) ==
    /\ reservations' = [reservations EXCEPT ![reservation_id].status =
                           IF @ = "Confirmed" THEN "Cancelled" ELSE "Confirmed"]
    /\ seats' = [seats EXCEPT ![reservations[reservation_id].seat_id].status = "Available"]

\* CancelFlush that also clears the client of the row
CancelFlushAnonymize(reservation_id, seat_status) ==
    /\ reservations' = [reservations EXCEPT ![reservation_id].status = "Cancelled",
                                           ![reservation_id].client_id = 0]
    /\ seats' = [seats EXCEPT ![reservations[reservation_id].seat_id].status = "Available"]

\* CancelFlush that releases every seat of the train of the reservation's seat
CancelFlushWholeTrain(reservation_id, seat_status) ==
    /\ reservations' = [reservations EXCEPT ![reservation_id].status = "Cancelled"]
    /\ seats' = [s \in DOMAIN seats |->
                   IF seats[s].train_id = seats[reservations[reservation_id].seat_id].train_id
                   THEN [seats[s] EXCEPT !.status = "Available"]
                   ELSE seats[s]]

\* routes.py 321-325: reservation.status = "Cancelled"; seat.status = "Available";
\* db.commit().  The flush emits an UPDATE only for an attribute whose new value
\* differs from the value the session loaded: the reservation was loaded
\* Confirmed, the seat with seat_status.
CancelFlush(reservation_id, seat_status) ==
    /\ reservations' = [reservations EXCEPT ![reservation_id].status = "Cancelled"]
    /\ seats' = IF seat_status # "Available"
                THEN [seats EXCEPT ![reservations[reservation_id].seat_id].status = "Available"]
                ELSE seats

CancelRequest(reservation_id) ==
    [NoReq EXCEPT !.op = "cancel", !.reservation_id = reservation_id]

\* a PUT /reservations/{reservation_id}/cancel request reaches a free worker
CancelReceive(w, reservation_id) ==
    /\ Free(w)
    /\ Goto(w, "cancel_reservation", CancelRequest(reservation_id), NoLoad)
    /\ UNCHANGED store

\* CancelQueryReservation that releases the seat again when it finds the
\* reservation already Cancelled
CancelQueryReservationReleasing(w) ==
    /\ pc[w] = "cancel_reservation"
    /\ LET r == CancelValidate(req[w].reservation_id) IN
       /\ IF r # NoResp THEN Return(w, req[w], r) ELSE Goto(w, "cancel_seat", req[w], NoLoad)
       /\ seats' = IF r = HTTPException(400, "Reservation is already cancelled.")
                   THEN [seats EXCEPT ![reservations[req[w].reservation_id].seat_id].status =
                                          "Available"]
                   ELSE seats
    /\ UNCHANGED <<clients, trains, reservations>>

CancelQueryReservation(w) ==
    /\ pc[w] = "cancel_reservation"
    /\ LET r == CancelValidate(req[w].reservation_id) IN
       IF r # NoResp THEN Return(w, req[w], r) ELSE Goto(w, "cancel_seat", req[w], NoLoad)
    /\ UNCHANGED store

CancelQuerySeat(w) ==
    /\ pc[w] = "cancel_seat"
    /\ LET seat == SeatById(reservations[req[w].reservation_id].seat_id) IN
       IF seat = 0
       THEN Return(w, req[w], HTTPException(404, "Associated seat not found."))
       ELSE Goto(w, "cancel_commit", req[w],
                 [reservation_id |-> req[w].reservation_id,
                  seat_status |-> seats[seat].status])
    /\ UNCHANGED store

\* The response is built after the commit from the refreshed rows: status is
\* read back as Cancelled, the other fields never change.
CancelCommit(w) ==
    /\ pc[w] = "cancel_commit"
    /\ CancelFlush(loaded[w].reservation_id, loaded[w].seat_status)
    /\ Return(w, req[w], Ok(<<[ReservationResponse(loaded[w].reservation_id)
                                 EXCEPT !.status = "Cancelled"]>>))
    /\ UNCHANGED <<clients, trains>>

\* ------------------------------------------------- get_client_reservations
\* ClientReservations without the status filter
ClientReservationsUnfiltered(client_id, reservation_status) ==
    SelectSeq([i \in 1 .. Len(reservations) |-> i],
              LAMBDA i : reservations[i].client_id = client_id)

\* ClientReservations without the filter on the client
ClientReservationsAnyClient(client_id, reservation_status) ==
    SelectSeq([i \in 1 .. Len(reservations) |-> i],
              LAMBDA i : reservation_status # "None"
                            => reservations[i].status = reservation_status)

\* routes.py 269-276: the client's rows, filtered by status when one is given,
\* in storage order.
ClientReservations(client_id, reservation_status) ==
    SelectSeq([i \in 1 .. Len(reservations) |-> i],
              LAMBDA i : /\ reservations[i].client_id = client_id
                         /\ (reservation_status # "None"
                                => reservations[i].status = reservation_status))

\* routes.py 278-293
ClientReservationsResponse(client_id, reservation_status) ==
    LET ids == ClientReservations(client_id, reservation_status) IN
    IF ids = <<>>
    THEN HTTPException(404, "No reservations found for the specified client.")
    ELSE Ok([k \in 1 .. Len(ids) |->
               LET r == reservations[ids[k]] IN
               [reservation_id |-> ids[k],
                seat_id |-> r.seat_id,
                train_id |-> IF SeatById(r.seat_id) # 0 THEN seats[r.seat_id].train_id ELSE 0,
                ticket_type |-> r.ticket_type,
                status |-> r.status]])

GetClientReservationsRequest(client_id, reservation_status) ==
    [NoReq EXCEPT !.op = "get_client_reservations", !.client_id = client_id,
                  !.reservation_status = reservation_status]

\* a GET /clients/{client_id}/reservations request reaches a free worker
GetClientReservationsReceive(w, client_id, reservation_status) ==
    /\ Free(w)
    /\ Goto(w, "reservations_client",
            GetClientReservationsRequest(client_id, reservation_status), NoLoad)
    /\ UNCHANGED store

GetClientReservationsQueryClient(w) ==
    /\ pc[w] = "reservations_client"
    /\ IF ~ClientExists(req[w].client_id)
       THEN Return(w, req[w], HTTPException(404, "Client not found."))
       ELSE Goto(w, "reservations_query", req[w], NoLoad)
    /\ UNCHANGED store

GetClientReservationsQuery(w) ==
    /\ pc[w] = "reservations_query"
    /\ Return(w, req[w],
              ClientReservationsResponse(req[w].client_id, req[w].reservation_status))
    /\ UNCHANGED store

\* ------------------------------------------------------------------- Next
Receive(w) ==
    \/ \E c \in ClientInputs, s \in SeatInputs, t \in TicketInputs : CreateReceive(w, c, s, t)
    \/ \E r \in 1 .. (Len(reservations) + 1) : CancelReceive(w, r)
    \/ \E c \in ClientInputs, f \in StatusInputs : GetClientReservationsReceive(w, c, f)

Step(w) ==
    \/ CreateQueryClient(w)
    \/ CreateQuerySeat(w)
    \/ CreateCommit(w)
    \/ CreateRespond(w)
    \/ CancelQueryReservation(w)
    \/ CancelQuerySeat(w)
    \/ CancelCommit(w)
    \/ GetClientReservationsQueryClient(w)
    \/ GetClientReservationsQuery(w)

\* requests are handled concurrently, one per worker thread
Next == \E w \in Workers : Receive(w) \/ Step(w)

Spec == Init /\ [][Next]_vars

\* requests are handled one at a time: a request is received only when no
\* worker is inside a handler
AllIdle == \A v \in Workers : pc[v] = "idle"

SeqReceive(w) ==
    \/ \E c \in ClientInputs, s \in SeatInputs, t \in TicketInputs :
          AllIdle /\ CreateReceive(w, c, s, t)
    \/ \E r \in 1 .. (Len(reservations) + 1) : AllIdle /\ CancelReceive(w, r)
    \/ \E c \in ClientInputs, f \in StatusInputs :
          AllIdle /\ GetClientReservationsReceive(w, c, f)

SeqNext == \E w \in Workers : SeqReceive(w) \/ Step(w)

SpecSeq == Init /\ [][SeqNext]_vars


\* a create_reservation race: every worker has received a valid request for the
\* same Available seat and is about to query the seat.  The seat is one of the
\* fresh store or one that was booked and released before.
RaceInit ==
    /\ clients = SeededClients
    /\ trains = SeededTrains
    /\ seats = SeededSeats
    /\ pc = [w \in Workers |-> "create_seat"]
    /\ \E s \in SeatIds :
         /\ \E cs \in [Workers -> DOMAIN clients],
               ts \in [Workers -> {"Flexible", "NonFlexible"}] :
               req = [w \in Workers |-> CreateRequest(cs[w], s, ts[w])]
         /\ \/ reservations = <<>>
            \/ \E c \in DOMAIN clients, t \in {"Flexible", "NonFlexible"} :
                  reservations = <<[client_id |-> c, seat_id |-> s,
                                    ticket_type |-> t, status |-> "Cancelled"]>>
    /\ loaded = [w \in Workers |-> NoLoad]
    /\ last = [req |-> NoReq, resp |-> NoResp]

RaceNext == \E w \in Workers : CreateQuerySeat(w) \/ CreateCommit(w) \/ CreateRespond(w)

SpecRace == RaceInit /\ [][RaceNext]_vars

\* ------------------------------------------------------------ register_user
\* api_a/routes.py 23-43 (REST front-end, "rest") and soap_api/services.py
\* 10-27 (RPC front-end, "rpc").  Both look the username up and, when it is
\* free, add the client and commit.
UsernameInputs == {"testuser", "alice", "bob"}

RegisterRequest(front, username) ==
    [op |-> "register_user", front |-> front, username |-> username]

\* the answers of the two front-ends
Registered(front) == Ok(<<"User registered successfully.">>)

UsernameExists(front) ==
    IF front = "rest"
    THEN HTTPException(400, "Error: Username already exists.")
    ELSE Ok(<<"Error: Username already exists.">>)

\* db.commit() raises IntegrityError, which neither handler catches: the REST
\* front-end answers 500, the RPC front-end answers with a fault
IntegrityError(front) ==
    IF front = "rest"
    THEN HTTPException(500, "Internal Server Error")
    ELSE HTTPException(500, "Fault")

\* db.query(Client).filter(Client.username == username).first()
ClientByUsername(username) ==
    {i \in DOMAIN clients : clients[i].username = username}

\* a clients table without the unique constraint
UniqueViolationNever(username) == FALSE

\* models.py 40: username = Column(String, unique=True): the INSERT of a
\* username that a committed row holds fails
UniqueViolation(username) == ClientByUsername(username) # {}

\* registrations in flight
PendingRegisters ==
    Cardinality({w \in Workers : pc[w] \in {"register_query", "register_commit"}})

\* A register_user call reaches a free worker.  The RPC server (wsgiref
\* simple_server) handles one request at a time, the REST handlers run in a
\* thread pool.
RegisterReceive(w, front, username) ==
    /\ Free(w)
    /\ front = "rpc" =>
          \A v \in Workers :
             pc[v] \in {"register_query", "register_commit"} => req[v].front # "rpc"
    /\ Len(clients) + PendingRegisters < NumClients + Cardinality(UsernameInputs)
    /\ Goto(w, "register_query", RegisterRequest(front, username), NoLoad)
    /\ UNCHANGED store

RegisterQuery(w) ==
    /\ pc[w] = "register_query"
    /\ IF ClientByUsername(req[w].username) # {}
       THEN Return(w, req[w], UsernameExists(req[w].front))
       ELSE Goto(w, "register_commit", req[w], NoLoad)
    /\ UNCHANGED store

RegisterCommit(w) ==
    /\ pc[w] = "register_commit"
    /\ IF UniqueViolation(req[w].username)
       THEN /\ Return(w, req[w], IntegrityError(req[w].front))
            /\ UNCHANGED store
       ELSE /\ clients' = Append(clients, [username |-> req[w].username])
            /\ Return(w, req[w], Registered(req[w].front))
            /\ UNCHANGED <<trains, seats, reservations>>

RegisterNext ==
    \E w \in Workers :
        \/ \E front \in {"rest", "rpc"}, username \in UsernameInputs :
              RegisterReceive(w, front, username)
        \/ RegisterQuery(w)
        \/ RegisterCommit(w)

SpecRegister == Init /\ [][RegisterNext]_vars

\* ------------------------------------------------------- sequential engine
\* Requests handled one at a time, each handler run from its first round trip
\* to its response without another request in between.

\* the handler of request q runs on a free worker and returns r
Handle(q, r) == \E w \in Workers : AllIdle /\ Free(w) /\ Return(w, q, r)

\* routes.py 205-246 as one step
create_reservation(client_id, seat_id, ticket_type) ==
    LET q == CreateRequest(client_id, seat_id, ticket_type)
        invalid == CreateValidate(client_id, ticket_type)
        taken == CreateSeatCheck(seat_id) IN
    /\ Len(reservations) < MaxReservations
    /\ IF invalid # NoResp THEN Handle(q, invalid) /\ UNCHANGED store
       ELSE IF taken # NoResp THEN Handle(q, taken) /\ UNCHANGED store
       ELSE /\ CreateFlush(client_id, seat_id, ticket_type)
            /\ UNCHANGED <<clients, trains>>
            /\ Handle(q, Ok(<<ReservationRecord(reservations', seats',
                                                Len(reservations) + 1)>>))

\* routes.py 300-335 as one step
cancel_reservation(reservation_id) ==
    LET q == CancelRequest(reservation_id)
        invalid == CancelValidate(reservation_id) IN
    IF invalid # NoResp THEN Handle(q, invalid) /\ UNCHANGED store
    ELSE LET seat == SeatById(reservations[reservation_id].seat_id) IN
         IF seat = 0
         THEN /\ Handle(q, HTTPException(404, "Associated seat not found."))
              /\ UNCHANGED store
         ELSE /\ CancelFlush(reservation_id, seats[seat].status)
              /\ UNCHANGED <<clients, trains>>
              /\ Handle(q, Ok(<<ReservationRecord(reservations', seats',
                                                  reservation_id)>>))

\* routes.py 253-293 as one step
get_client_reservations(client_id, reservation_status) ==
    /\ Handle(GetClientReservationsRequest(client_id, reservation_status),
              IF ~ClientExists(client_id)
              THEN HTTPException(404, "Client not found.")
              ELSE ClientReservationsResponse(client_id, reservation_status))
    /\ UNCHANGED store

\* ------------------------------------------------------------ filter_trains
\* An optional parameter that is absent: 0 for a date and for
\* min_available_seats (the code tests it for truth, so 0 and None are alike),
\* "None" for seat_class.

\* a set of ids as the sequence of its elements in ascending order
SortedSeq(S) ==
    CHOOSE f \in [1 .. Cardinality(S) -> S] :
        \A i, j \in 1 .. Cardinality(S) : i < j => f[i] < f[j]

\* routes.py 36-52: the Seat rows joined to a train that pass the filters on Seat
JoinedSeats(train_id, seat_class) ==
    {s \in DOMAIN seats :
        /\ seats[s].train_id = train_id
        /\ seats[s].status = "Available"
        /\ seat_class # "None" => seats[s].seat_class = seat_class}

\* JoinedSeats with the class filter left out of the rows that are counted
JoinedSeatsAnyClass(train_id, seat_class) ==
    {s \in DOMAIN seats :
        /\ seats[s].train_id = train_id
        /\ seats[s].status = "Available"}

\* Having that counts the Available seats of every class
HavingAnyClass(train_id, seat_class, min_available_seats) ==
    min_available_seats # 0 =>
        Cardinality(JoinedSeatsAnyClass(train_id, seat_class)) >= min_available_seats

\* routes.py 57: HAVING count(Seat.seat_id) >= min_available_seats
Having(train_id, seat_class, min_available_seats) ==
    min_available_seats # 0 =>
        Cardinality(JoinedSeats(train_id, seat_class)) >= min_available_seats

\* FilterQuery with the date bounds exclusive
FilterQueryExclusive(q) ==
    {t \in DOMAIN trains :
        /\ trains[t].departure_station = q.departure_station
        /\ trains[t].arrival_station = q.arrival_station
        /\ q.outbound_date # 0 => trains[t].departure_datetime > q.outbound_date
        /\ q.return_date # 0 => trains[t].departure_datetime < q.return_date
        /\ JoinedSeats(t, q.seat_class) # {}
        /\ Having(t, q.seat_class, q.min_available_seats)}

\* routes.py 36-59: the groups of the query, one per train with a joined row
FilterQuery(q) ==
    {t \in DOMAIN trains :
        /\ trains[t].departure_station = q.departure_station
        /\ trains[t].arrival_station = q.arrival_station
        /\ q.outbound_date # 0 => trains[t].departure_datetime >= q.outbound_date
        /\ q.return_date # 0 => trains[t].departure_datetime <= q.return_date
        /\ JoinedSeats(t, q.seat_class) # {}
        /\ Having(t, q.seat_class, q.min_available_seats)}

\* available_seat_counts that counts the seats of the class whatever their status
available_seat_countsAnyStatus(train_id, seat_class) ==
    Cardinality({s \in DOMAIN seats :
                    /\ seats[s].train_id = train_id
                    /\ seats[s].seat_class = seat_class})

\* routes.py 66-70: the seats of train.seats of one class that are Available
available_seat_counts(train_id, seat_class) ==
    Cardinality({s \in DOMAIN seats :
                    /\ seats[s].train_id = train_id
                    /\ seats[s].seat_class = seat_class
                    /\ seats[s].status = "Available"})

\* routes.py 72-81
TrainResponse(train_id) ==
    [train_id |-> train_id,
     departure_station |-> trains[train_id].departure_station,
     arrival_station |-> trains[train_id].arrival_station,
     departure_date |-> trains[train_id].departure_datetime,
     arrival_date |-> trains[train_id].arrival_datetime,
     available_seats_first |-> available_seat_counts(train_id, "First"),
     available_seats_business |-> available_seat_counts(train_id, "Business"),
     available_seats_standard |-> available_seat_counts(train_id, "Standard")]

\* routes.py 59-83: the groups come out in the order of Train.train_id
FilterTrainsResponse(q) ==
    LET found == SortedSeq(FilterQuery(q)) IN
    IF found = <<>>
    THEN HTTPException(404, "No available trains found.")
    ELSE Ok([k \in 1 .. Len(found) |-> TrainResponse(found[k])])

FilterRequest(departure_station, arrival_station, outbound_date, return_date, min_available_seats, seat_class) ==
    [op |-> "filter_trains",
     departure_station |-> departure_station, arrival_station |-> arrival_station,
     outbound_date |-> outbound_date, return_date |-> return_date,
     min_available_seats |-> min_available_seats, seat_class |-> seat_class]

\* routes.py 18-83 as one step
filter_trains(departure_station, arrival_station, outbound_date, return_date, min_available_seats, seat_class) ==
    LET q == FilterRequest(departure_station, arrival_station, outbound_date,
                           return_date, min_available_seats, seat_class) IN
    /\ Handle(q, FilterTrainsResponse(q))
    /\ UNCHANGED store

\* ---------------------------------------------------------- get_train_seats
\* SeatsQuery without the filter on the status
SeatsQueryAnyStatus(train_id, seat_class) ==
    {s \in DOMAIN seats :
        /\ seats[s].train_id = train_id
        /\ seat_class # "None" => seats[s].seat_class = seat_class}

\* routes.py 101-108: the seats of the train that are Available, of the class
\* when one is given
SeatsQuery(train_id, seat_class) ==
    {s \in DOMAIN seats :
        /\ seats[s].train_id = train_id
        /\ seats[s].status = "Available"
        /\ seat_class # "None" => seats[s].seat_class = seat_class}

\* routes.py 111: ORDER BY fare DESC.  Rows of equal fare come in an order the
\* database is free to choose: every such order is a member.
OrderByFareDesc(S) ==
    {f \in [1 .. Cardinality(S) -> S] :
        /\ \A i, j \in 1 .. Cardinality(S) : i # j => f[i] # f[j]
        /\ \A i, j \in 1 .. Cardinality(S) : i < j => seats[f[i]].fare >= seats[f[j]].fare}

\* routes.py 117-126
SeatResponse(seat_id) ==
    [seat_id |-> seat_id,
     train_id |-> seats[seat_id].train_id,
     seat_class |-> seats[seat_id].seat_class,
     fare |-> seats[seat_id].fare,
     status |-> seats[seat_id].status]

\* routes.py 129-133: the bucket of a class, in the order of the query
grouped_seats(ordered, seat_class) ==
    LET serialized_seats == [k \in 1 .. Len(ordered) |-> SeatResponse(ordered[k])] IN
    SelectSeq(serialized_seats, LAMBDA seat : seat.seat_class = seat_class)

\* GetTrainSeatsResponse that answers an empty result with empty buckets
GetTrainSeatsResponseEmpty(train_id, seat_class, ordered) ==
    Ok([train_id |-> train_id,
        seats |-> [c \in (IF seat_class # "None" THEN {seat_class} ELSE seat_classes)
                      |-> grouped_seats(ordered, c)]])

\* routes.py 113-147 for the rows of the query in the order they came in
GetTrainSeatsResponse(train_id, seat_class, ordered) ==
    IF ordered = <<>>
    THEN HTTPException(404, "No available seats found for the specified train.")
    ELSE Ok([train_id |-> train_id,
             seats |-> [c \in (IF seat_class # "None" THEN {seat_class} ELSE seat_classes)
                           |-> grouped_seats(ordered, c)]])

SeatsRequest(train_id, seat_class) ==
    [op |-> "get_train_seats", train_id |-> train_id, seat_class |-> seat_class]

\* get_train_seats that holds the seats it returns
get_train_seatsHolding(train_id, seat_class) ==
    /\ \E ordered \in OrderByFareDesc(SeatsQuery(train_id, seat_class)) :
          Handle(SeatsRequest(train_id, seat_class),
                 GetTrainSeatsResponse(train_id, seat_class, ordered))
    /\ seats' = [s \in DOMAIN seats |->
                    IF s \in SeatsQuery(train_id, seat_class)
                    THEN [seats[s] EXCEPT !.status = "Reserved"] ELSE seats[s]]
    /\ UNCHANGED <<clients, trains, reservations>>

\* routes.py 91-147 as one step
get_train_seats(train_id, seat_class) ==
    /\ \E ordered \in OrderByFareDesc(SeatsQuery(train_id, seat_class)) :
          Handle(SeatsRequest(train_id, seat_class),
                 GetTrainSeatsResponse(train_id, seat_class, ordered))
    /\ UNCHANGED store

\* ------------------------------------------------------ get_seat, get_train
\* routes.py 154-172 as one step
get_seat(seat_id) ==
    /\ Handle([op |-> "get_seat", seat_id |-> seat_id],
              IF SeatById(seat_id) = 0
              THEN HTTPException(404, "Seat not found.")
              ELSE Ok(SeatResponse(seat_id)))
    /\ UNCHANGED store

\* routes.py 179-197 as one step
get_train(train_id) ==
    /\ Handle([op |-> "get_train", train_id |-> train_id],
              IF train_id \notin DOMAIN trains
              THEN HTTPException(404, "Train not found.")
              ELSE Ok(trains[train_id]))
    /\ UNCHANGED store

\* train of a seat of an engine store: the generator gives every train seats
EngineTrainOf(seat_id) == ((seat_id - 1) % EngineTrains) + 1

\* clients of an engine store: the seeded client and one registered later
EngineClients == <<[username |-> "testuser"], [username |-> "user2"]>>

\* the reservation engine started from a store whose seats are on different
\* trains and whose clients are two
BookInit ==
    /\ clients = EngineClients
    /\ trains = [t \in 1 .. EngineTrains |-> TrainRow("StationA", "StationB", t)]
    /\ seats = [s \in 1 .. EngineSeats |->
                   SeatRow(EngineTrainOf(s), ClassOf(s), "Available")]
    /\ reservations = <<>>
    /\ pc = [w \in Workers |-> "idle"]
    /\ req = [w \in Workers |-> NoReq]
    /\ loaded = [w \in Workers |-> NoLoad]
    /\ last = [req |-> NoReq, resp |-> NoResp]

BookNext ==
    \/ \E c \in 1 .. (Len(clients) + 1), s \in 1 .. (EngineSeats + 1), t \in TicketInputs :
          create_reservation(c, s, t)
    \/ \E r \in 1 .. (Len(reservations) + 1) : cancel_reservation(r)
    \/ \E c \in 1 .. (Len(clients) + 1), f \in StatusInputs :
          get_client_reservations(c, f)

SpecBook == BookInit /\ [][BookNext]_vars

\* inputs of the queries
StationInputs == {<<"StationA", "StationB">>, <<"StationB", "StationA">>,
                  <<"StationA", "StationA">>}
ClassInputs == {"None"} \cup seat_classes
MinSeatsInputs == 0 .. (EngineSeats - 1)

\* A store of the engine: the trains and seats of the seed generator (train t
\* from dep[t] to arr[t] on day[t], seat s of class[s]) after the seats of
\* `reserved` were booked, in the order of their ids, by the seeded client.
EngineStore(dep, arr, day, class, reserved) ==
    /\ clients = EngineClients
    /\ trains = [t \in 1 .. EngineTrains |-> TrainRow(dep[t], arr[t], day[t])]
    /\ seats = [s \in 1 .. EngineSeats |->
                   SeatRow(EngineTrainOf(s), class[s],
                           IF s \in reserved THEN "Reserved" ELSE "Available")]
    /\ reservations = [k \in 1 .. Cardinality(reserved) |->
                          [client_id |-> 1, seat_id |-> SortedSeq(reserved)[k],
                           ticket_type |-> "Flexible", status |-> "Confirmed"]]

\* no request is being handled and none was answered yet
NoRequests ==
    /\ pc = [w \in Workers |-> "idle"]
    /\ req = [w \in Workers |-> NoReq]
    /\ loaded = [w \in Workers |-> NoLoad]
    /\ last = [req |-> NoReq, resp |-> NoResp]

\* the routes the generator can give the trains: two different stations each
Routes ==
    {r \in [1 .. EngineTrains -> stations \X stations] :
        \A t \in 1 .. EngineTrains : r[t][1] # r[t][2]}

\* filter_trains without dates over every store of the bounds: any routes, any
\* classes, any seats booked
FilterInit ==
    /\ \E r \in Routes, class \in [1 .. EngineSeats -> seat_classes],
          reserved \in SUBSET (1 .. EngineSeats) :
          EngineStore([t \in 1 .. EngineTrains |-> r[t][1]],
                      [t \in 1 .. EngineTrains |-> r[t][2]],
                      [t \in 1 .. EngineTrains |-> t], class, reserved)
    /\ NoRequests

\* no request was answered yet
FirstRequest == last.req = NoReq

\* one query against the store
FilterNext ==
    \E st \in StationInputs, m \in MinSeatsInputs, c \in ClassInputs :
        FirstRequest /\ filter_trains(st[1], st[2], 0, 0, m, c)

SpecFilter == FilterInit /\ [][FilterNext]_vars

\* filter_trains with dates: the trains of one route departing on any days,
\* any seats booked
DateInputs == 0 .. MaxDay

DatesInit ==
    /\ \E day \in [1 .. EngineTrains -> 1 .. MaxDay], reserved \in SUBSET (1 .. EngineSeats) :
          EngineStore([t \in 1 .. EngineTrains |-> "StationA"],
                      [t \in 1 .. EngineTrains |-> "StationB"],
                      day, [s \in 1 .. EngineSeats |-> ClassOf(s)], reserved)
    /\ NoRequests

DatesNext ==
    \E st \in StationInputs, outbound_date \in DateInputs, return_date \in DateInputs :
        FirstRequest /\ filter_trains(st[1], st[2], outbound_date, return_date, 0, "None")

SpecDates == DatesInit /\ [][DatesNext]_vars

\* get_train_seats over every store of the bounds: any classes, any seats booked
SeatsInit ==
    /\ \E class \in [1 .. EngineSeats -> seat_classes], reserved \in SUBSET (1 .. EngineSeats) :
          EngineStore([t \in 1 .. EngineTrains |-> "StationA"],
                      [t \in 1 .. EngineTrains |-> "StationB"],
                      [t \in 1 .. EngineTrains |-> t], class, reserved)
    /\ NoRequests

SeatsNext ==
    \E t \in 1 .. (EngineTrains + 1), c \in ClassInputs :
        FirstRequest /\ get_train_seats(t, c)

SpecSeats == SeatsInit /\ [][SeatsNext]_vars

\* the whole engine, queries between bookings and cancellations, started from
\* a seeded store
LiveInit ==
    /\ EngineStore([t \in 1 .. EngineTrains |-> "StationA"],
                   [t \in 1 .. EngineTrains |-> "StationB"],
                   [t \in 1 .. EngineTrains |-> t],
                   [s \in 1 .. EngineSeats |-> ClassOf(s)], {})
    /\ NoRequests

LiveNext ==
    \/ \E s \in 1 .. (EngineSeats + 1) : create_reservation(1, s, "Flexible")
    \/ \E r \in 1 .. (Len(reservations) + 1) : cancel_reservation(r)
    \/ \E c \in 1 .. (Len(clients) + 1), f \in StatusInputs : get_client_reservations(c, f)
    \/ \E st \in StationInputs, m \in MinSeatsInputs, c \in ClassInputs :
          filter_trains(st[1], st[2], 0, 0, m, c)
    \/ \E t \in 1 .. (EngineTrains + 1), c \in ClassInputs : get_train_seats(t, c)
    \/ \E s \in 1 .. (EngineSeats + 1) : get_seat(s)
    \/ \E t \in 1 .. (EngineTrains + 1) : get_train(t)

SpecLive == LiveInit /\ [][LiveNext]_vars

\* ----------------------------------------------------------- seed generator
\* database.py 11-26 and generate_trains.py 6-56.  Times are in seconds from
\* an origin before datetime.now().  The code passes num_trains = 100,
\* min_seats = 5 and max_seats = 50 (database.py 24); the loops are run here
\* with smaller values of the three parameters.
num_trains == 2
min_seats == 1
max_seats == 2

\* datetime.now() at the call: a whole minute, or its last second
NowInputs == {0, 59}
\* the least and the greatest value of random.randint(1, 30), of
\* random.randint(1, 12) and of random.randint(1, 5)
DayInputs == {1, 30}
HourInputs == {1, 12}
TravelInputs == {1, 5}

\* timedelta(days, hours)
timedelta(days, hours) == (days * 86400) + (hours * 3600)

\* datetime.replace(second=0, microsecond=0)
replace_second(t) == t - (t % 60)

\* two random choices of a station, the second made among all the stations
StationSampleWithReplacement == stations \X stations

\* random.sample(stations, 2): two different stations, in either order
StationSample == {p \in stations \X stations : p[1] # p[2]}

\* Train(...) of generate_trains.py 21-26
Train(departure_station, arrival_station, departure_datetime, arrival_datetime) ==
    [departure_station |-> departure_station,
     arrival_station |-> arrival_station,
     departure_datetime |-> departure_datetime,
     arrival_datetime |-> arrival_datetime]

\* Base.metadata.create_all: the tables exist and are empty
SeedInit ==
    /\ clients = <<>>
    /\ trains = <<>>
    /\ seats = <<>>
    /\ reservations = <<>>
    /\ NoRequests

\* database.py 19-21: the sample client is added and committed
SeedClient ==
    /\ clients = <<>>
    /\ clients' = SeededClients
    /\ UNCHANGED <<trains, seats, reservations, pc, req, loaded, last>>

\* the train committed last has its seats still to come (min_seats >= 1)
SeatsPending ==
    /\ trains # <<>>
    /\ \A s \in DOMAIN seats : seats[s].train_id # Len(trains)

\* generate_trains.py 12-28: one train is drawn, added and committed
SeedTrain ==
    /\ clients # <<>>
    /\ Len(trains) < num_trains
    /\ ~SeatsPending
    /\ \E p \in StationSample, now \in NowInputs, days \in DayInputs,
          hours \in HourInputs, travel \in TravelInputs :
          LET departure_datetime == replace_second(now + timedelta(days, hours))
              arrival_datetime == replace_second(departure_datetime + timedelta(0, travel))
          IN trains' = Append(trains, Train(p[1], p[2], departure_datetime, arrival_datetime))
    /\ UNCHANGED <<clients, seats, reservations, pc, req, loaded, last>>

\* generate_trains.py 30-53: the seats of the train committed last are drawn
\* and committed together
SeedSeats ==
    /\ SeatsPending
    /\ \E num_seats \in min_seats .. max_seats :
          \E seat_class \in [1 .. num_seats -> seat_classes] :
             seats' = seats \o [k \in 1 .. num_seats |->
                                  SeatRow(Len(trains), seat_class[k], "Available")]
    /\ UNCHANGED <<clients, trains, reservations, pc, req, loaded, last>>

\* initialize_database has returned
Seeded == Len(trains) = num_trains /\ ~SeatsPending

SeedNext == SeedClient \/ SeedTrain \/ SeedSeats

SpecSeed == SeedInit /\ [][SeedNext]_vars

\* The outcome kinds of the specification's error taxonomy, by the status
\* code that carries them (NotFound 404, InvalidArgument 400, Conflict 409).
OutcomeKind(r) ==
    CASE r.code = 200 -> "Success"
      [] r.code = 400 -> "InvalidArgument"
      [] r.code = 404 -> "NotFound"
      [] r.code = 409 -> "Conflict"
      [] OTHER -> "None"

\* ---------------------------------------------------------------- claims
ConfirmedOn(s) ==
    {i \in DOMAIN reservations :
        reservations[i].seat_id = s /\ reservations[i].status = "Confirmed"}

CancelledRows == {i \in DOMAIN reservations : reservations[i].status = "Cancelled"}

\* C1 (SpecSeq): with the calls run one at a time from the fresh store, after
\* every call a seat is Reserved iff a Confirmed reservation on it exists.
C1_SeatReservedIffConfirmed ==
    \A s \in DOMAIN seats : seats[s].status = "Reserved" <=> ConfirmedOn(s) # {}

\* C1 witness: a seat was booked, released and booked again.
C1_Witness ==
    \E i, j \in DOMAIN reservations :
        /\ i < j
        /\ reservations[i].seat_id = reservations[j].seat_id
        /\ reservations[i].status = "Cancelled"
        /\ reservations[j].status = "Confirmed"
        /\ seats[reservations[j].seat_id].status = "Reserved"

\* C2 (Spec): under any interleaving of concurrent requests every committed
\* store state has a seat Reserved iff it has a Confirmed reservation, and no
\* seat is Available while a Confirmed reservation on it exists.
C2_ConsistentUnderConcurrency ==
    \A s \in DOMAIN seats :
        /\ (seats[s].status = "Reserved") = (ConfirmedOn(s) # {})
        /\ ~(seats[s].status = "Available" /\ ConfirmedOn(s) # {})

\* C3 (SpecRace): when N concurrent create_reservation calls for the same
\* Available seat have all returned, exactly one of them has succeeded (a call
\* succeeds iff its commit inserted its Confirmed row), every response sent is
\* the success or the seat NotFound, and the seat has exactly one Confirmed
\* reservation.
C3_ExactlyOnceAssignment ==
    /\ last.resp.code \in {0, 200, 404}
    /\ (\A w \in Workers : pc[w] = "idle") =>
          /\ Cardinality({i \in DOMAIN reservations :
                             reservations[i].status = "Confirmed"}) = 1
          /\ \E s \in DOMAIN seats :
                Cardinality(ConfirmedOn(s)) = 1 /\ seats[s].status = "Reserved"

\* C4 (Spec): in every reachable store state each seat has at most one
\* Confirmed reservation.
C4_AtMostOneConfirmed ==
    \A s \in DOMAIN seats : Cardinality(ConfirmedOn(s)) <= 1

\* C5 (Spec): the writes of one commit reach the store in one step.  A step
\* that inserts a reservation leaves its seat Reserved and a seat becomes
\* Reserved only in a step that inserts a reservation on it; the step in which
\* a cancel commits leaves the reservation Cancelled and, when the session has
\* a seat update pending, the seat Available, and a seat becomes Available only
\* in the step of a cancel commit that writes its reservation Cancelled.
C5_AtomicWrites ==
    [][ /\ \A i \in DOMAIN reservations' \ DOMAIN reservations :
              /\ reservations'[i].status = "Confirmed"
              /\ seats'[reservations'[i].seat_id].status = "Reserved"
        /\ \A s \in DOMAIN seats :
              (seats[s].status # "Reserved" /\ seats'[s].status = "Reserved") =>
                 \E i \in DOMAIN reservations' \ DOMAIN reservations :
                    reservations'[i].seat_id = s
        /\ \A w \in Workers :
              (pc[w] = "cancel_commit" /\ pc'[w] # "cancel_commit") =>
                 LET i == loaded[w].reservation_id IN
                 /\ reservations'[i].status = "Cancelled"
                 /\ loaded[w].seat_status # "Available" =>
                       seats'[reservations[i].seat_id].status = "Available"
        /\ \A i \in DOMAIN reservations :
              (reservations[i].status = "Confirmed" /\ reservations'[i].status = "Cancelled") =>
                 \E w \in Workers :
                    pc[w] = "cancel_commit" /\ pc'[w] = "idle" /\ loaded[w].reservation_id = i
        /\ \A s \in DOMAIN seats :
              (seats[s].status # "Available" /\ seats'[s].status = "Available") =>
                 \E w \in Workers :
                    /\ pc[w] = "cancel_commit" /\ pc'[w] = "idle"
                    /\ reservations[loaded[w].reservation_id].seat_id = s
                    /\ reservations'[loaded[w].reservation_id].status = "Cancelled"
      ]_vars

\* C5 witness: a create and a cancel have both committed while another request
\* was being handled.
C5_Witness ==
    /\ CancelledRows # {}
    /\ \E i \in DOMAIN reservations : reservations[i].status = "Confirmed"
    /\ \E w \in Workers : pc[w] # "idle"

\* C7 (Spec): a Cancelled reservation is Cancelled in every later state.
C7_CancelledIsTerminal ==
    [][ \A i \in DOMAIN reservations :
           reservations[i].status = "Cancelled" =>
              i \in DOMAIN reservations' /\ reservations'[i].status = "Cancelled" ]_vars

\* C7 witness: a reservation is Cancelled and a later create_reservation on
\* its seat has been answered with success.
C7_Witness ==
    /\ last.req.op = "create" /\ last.resp.code = 200
    /\ \E i \in CancelledRows :
          /\ reservations[i].seat_id = last.req.seat_id
          /\ i < last.resp.body[1].reservation_id

\* the step answers a request: a handler returns
Answers == \E w \in Workers : pc[w] # "idle" /\ pc'[w] = "idle"

\* the request answered last was this cancel_reservation and it succeeded
CancelledJustBefore(q) ==
    last.req = q /\ q.op = "cancel" /\ last.resp.code = 200

AlreadyCancelled == HTTPException(400, "Reservation is already cancelled.")

\* the first of two cancel_reservation calls in sequence: the reservation is
\* Confirmed when the call is made, the call succeeds and leaves the
\* reservation Cancelled and its seat Available
FirstCancelSucceeds ==
    \A i \in DOMAIN reservations :
        (Answers /\ last'.req = CancelRequest(i) /\ reservations[i].status = "Confirmed") =>
           /\ last'.resp.code = 200
           /\ last'.resp.body[1].status = "Cancelled"
           /\ reservations'[i].status = "Cancelled"
           /\ seats'[reservations[i].seat_id].status = "Available"

InvalidTicket == HTTPException(400, "Invalid ticket type. Must be 'Flexible' or 'NonFlexible'.")
ClientNotFound == HTTPException(404, "Client not found.")
SeatNotFound == HTTPException(404, "Seat not found or already reserved.")
ValidTicket(q) == q.ticket_type \in {"Flexible", "NonFlexible"}

\* C8 (SpecSeq): create_reservation checks ticket_type, then the client, then
\* the seat.  An invalid ticket_type is answered InvalidArgument whatever the
\* client and the seat; otherwise a missing client is answered NotFound(client)
\* whatever the seat; otherwise a seat that is missing or not Available is
\* answered NotFound(seat); the call commits, and is answered with success,
\* only when the three checks pass, and then it does.
C8_PreconditionOrder ==
    [][ /\ (Answers /\ last'.req.op = "create") =>
              LET q == last'.req
                  r == last'.resp IN
              /\ ~ValidTicket(q) => r = InvalidTicket
              /\ (ValidTicket(q) /\ q.client_id \notin DOMAIN clients) => r = ClientNotFound
              /\ (ValidTicket(q) /\ q.client_id \in DOMAIN clients /\ r.code # 200) =>
                    /\ r = SeatNotFound
                    /\ q.seat_id \notin DOMAIN seats \/ seats[q.seat_id].status # "Available"
              /\ r.code = 200 =>
                    /\ ValidTicket(q) /\ q.client_id \in DOMAIN clients
                    /\ q.seat_id \in DOMAIN seats
        /\ \A w \in Workers :
              /\ (pc[w] = "create_seat" /\ pc'[w] # "create_seat") =>
                    LET q == req[w] IN
                    /\ ValidTicket(q) /\ q.client_id \in DOMAIN clients
                    /\ (q.seat_id \in DOMAIN seats /\ seats[q.seat_id].status = "Available")
                          <=> pc'[w] = "create_commit"
              /\ (pc[w] = "create_commit" /\ pc'[w] # "create_commit") =>
                    /\ seats[req[w].seat_id].status = "Available"
                    /\ pc'[w] = "create_respond"
              /\ (pc[w] = "create_respond" /\ pc'[w] # "create_respond") =>
                    last'.req = req[w] /\ last'.resp.code = 200
      ]_vars

\* C8 witness: an invalid ticket_type with a missing client and a missing seat
\* has been answered InvalidArgument.
C8_Witness ==
    /\ last.req.op = "create"
    /\ ~ValidTicket(last.req)
    /\ last.req.client_id \notin DOMAIN clients
    /\ last.req.seat_id \notin DOMAIN seats
    /\ last.resp = InvalidTicket

\* a create_reservation of an existing client with a valid ticket_type that failed
FailedOnSeat(a) ==
    /\ a.req.op = "create" /\ ValidTicket(a.req)
    /\ a.req.client_id \in DOMAIN clients
    /\ a.resp.code # 200

\* C9 (SpecSeq): of two create_reservation calls in sequence by existing clients
\* with valid ticket_types, one on a seat_id that does not exist and one on a
\* seat that exists and is Reserved, the two failures are the same response
\* (same status code, same message).
C9_ReservedLooksMissing ==
    [][ (/\ Answers
         /\ FailedOnSeat(last) /\ FailedOnSeat(last')
         /\ \/ last.req.seat_id \notin DOMAIN seats /\ last'.req.seat_id \in DOMAIN seats
            \/ last.req.seat_id \in DOMAIN seats /\ last'.req.seat_id \notin DOMAIN seats)
        => last'.resp = last.resp ]_vars

\* C9 witness: a create_reservation on an existing, Reserved seat has failed.
C9_Witness ==
    /\ FailedOnSeat(last)
    /\ last.req.seat_id \in DOMAIN seats
    /\ seats[last.req.seat_id].status = "Reserved"
    /\ last.resp = SeatNotFound

\* the records of a successful get_client_reservations answer that carry id i
Records(a, i) == {k \in DOMAIN a.resp.body : a.resp.body[k].reservation_id = i}

Matching(c, f) ==
    {i \in DOMAIN reservations :
        /\ reservations[i].client_id = c
        /\ f # "None" => reservations[i].status = f}

\* C11 (SpecBook): get_client_reservations(client_id, status?) fails NotFound
\* when the client does not exist and when no reservation of the client passes
\* the filter; otherwise it returns, once each, exactly the reservations of
\* the client that pass the filter, with the fields of their rows: never an
\* empty list, never a reservation of another client.
C11_ClientReservationsExact ==
    last.req.op = "get_client_reservations" =>
       LET c == last.req.client_id
           f == last.req.reservation_status
           body == last.resp.body IN
       /\ c \notin DOMAIN clients => OutcomeKind(last.resp) = "NotFound"
       /\ (c \in DOMAIN clients /\ Matching(c, f) = {}) => OutcomeKind(last.resp) = "NotFound"
       /\ (c \in DOMAIN clients /\ Matching(c, f) # {}) =>
             /\ last.resp.code = 200
             /\ body # <<>>
             /\ Len(body) = Cardinality(Matching(c, f))
             /\ {body[k].reservation_id : k \in DOMAIN body} = Matching(c, f)
             /\ \A k \in DOMAIN body :
                   LET r == reservations[body[k].reservation_id] IN
                   /\ r.client_id = c
                   /\ body[k].seat_id = r.seat_id
                   /\ body[k].ticket_type = r.ticket_type
                   /\ body[k].status = r.status

\* C11 witness: a filtered query of a client has succeeded while another client
\* has a reservation that passes the same filter.
C11_Witness ==
    /\ last.req.op = "get_client_reservations"
    /\ last.req.reservation_status = "Confirmed"
    /\ last.resp.code = 200
    /\ \E i \in DOMAIN reservations :
          /\ reservations[i].client_id # last.req.client_id
          /\ reservations[i].status = "Confirmed"

\* the Available seats of train t, of class c when one is given
AvailableOf(t, c) ==
    {s \in DOMAIN seats :
        /\ seats[s].train_id = t
        /\ seats[s].status = "Available"
        /\ c # "None" => seats[s].seat_class = c}

\* the trains a filter_trains request without dates asks for
Qualifying(q) ==
    {t \in DOMAIN trains :
        /\ trains[t].departure_station = q.departure_station
        /\ trains[t].arrival_station = q.arrival_station
        /\ Cardinality(AvailableOf(t, q.seat_class)) >= 1
        /\ Cardinality(AvailableOf(t, q.seat_class)) >= q.min_available_seats}

\* the train ids of a filter_trains answer
Returned(a) == {a.resp.body[k].train_id : k \in DOMAIN a.resp.body}

\* C12 (SpecFilter): filter_trains without date filters returns, once each,
\* exactly the trains of the route that have an Available seat (of seat_class
\* when given) and at least min_available_seats Available seats (of seat_class
\* when given); it fails NotFound exactly when there is no such train.
C12_FilterExact ==
    (last.req.op = "filter_trains" /\ last.req.outbound_date = 0 /\ last.req.return_date = 0) =>
       /\ OutcomeKind(last.resp) = "NotFound" <=> Qualifying(last.req) = {}
       /\ Qualifying(last.req) # {} =>
             /\ last.resp.code = 200
             /\ Returned(last) = Qualifying(last.req)
             /\ Len(last.resp.body) = Cardinality(Qualifying(last.req))

\* C12 witness: two trains of the route have Available Standard seats, one of
\* them two and the other one, and the query for two Standard seats has
\* returned the first only.
C12_Witness ==
    /\ last.req.op = "filter_trains"
    /\ last.req.min_available_seats = 2 /\ last.req.seat_class = "Standard"
    /\ last.resp.code = 200
    /\ \E t1, t2 \in DOMAIN trains :
          /\ t1 # t2
          /\ trains[t2].departure_station = last.req.departure_station
          /\ trains[t2].arrival_station = last.req.arrival_station
          /\ Cardinality(AvailableOf(t1, "Standard")) = 2
          /\ Cardinality(AvailableOf(t2, "Standard")) = 1
          /\ Returned(last) = {t1}

\* the departure of train t is within the date bounds of request q
WithinDates(t, q) ==
    /\ q.outbound_date # 0 => trains[t].departure_datetime >= q.outbound_date
    /\ q.return_date # 0 => trains[t].departure_datetime <= q.return_date

\* C13 (SpecDates): the date filters of filter_trains are inclusive bounds on
\* departure_datetime.  Every returned train departs at or after outbound_date
\* and at or before return_date (each when given); every train that qualifies
\* otherwise and departs within the bounds, a bound included, is returned; with
\* outbound_date after return_date the call fails NotFound.
C13_DatesInclusive ==
    last.req.op = "filter_trains" =>
       LET q == last.req IN
       /\ last.resp.code = 200 =>
             \A k \in DOMAIN last.resp.body :
                /\ q.outbound_date # 0 => last.resp.body[k].departure_date >= q.outbound_date
                /\ q.return_date # 0 => last.resp.body[k].departure_date <= q.return_date
       /\ \A t \in Qualifying(q) :
             WithinDates(t, q) <=> (last.resp.code = 200 /\ t \in Returned(last))
       /\ (q.outbound_date # 0 /\ q.return_date # 0 /\ q.outbound_date > q.return_date) =>
             OutcomeKind(last.resp) = "NotFound"

\* C13 witness: with both bounds on the same day, a train departing that day
\* is returned and a train of the route with an Available seat departing
\* another day is not.
C13_Witness ==
    /\ last.req.op = "filter_trains"
    /\ last.req.outbound_date # 0 /\ last.req.return_date = last.req.outbound_date
    /\ last.resp.code = 200
    /\ \E t \in Returned(last) : trains[t].departure_datetime = last.req.outbound_date
    /\ \E t \in Qualifying(last.req) : t \notin Returned(last)

\* the places <<class, k>> of the buckets of a get_train_seats answer
Places(a) ==
    {p \in (DOMAIN a.resp.body.seats) \X (1 .. EngineSeats) :
        p[2] \in DOMAIN a.resp.body.seats[p[1]]}

\* C15 (SpecSeats): a successful get_train_seats(train_id, seat_class?) has the
\* three buckets First, Business and Standard without a class filter and the
\* bucket of the class with one; every seat in a bucket is a seat of train_id
\* that is Available, in the bucket of its own class; every Available seat of
\* the train (of the class, with a filter) is in the answer exactly once; the
\* fares of a bucket do not increase along it.
C15_SeatsGrouped ==
    (last.req.op = "get_train_seats" /\ last.resp.code = 200) =>
       LET t == last.req.train_id
           c == last.req.seat_class
           b == last.resp.body.seats IN
       /\ DOMAIN b = IF c = "None" THEN {"First", "Business", "Standard"} ELSE {c}
       /\ \A p \in Places(last) :
             LET seat == b[p[1]][p[2]] IN
             /\ seat.seat_id \in DOMAIN seats
             /\ seat.train_id = t /\ seats[seat.seat_id].train_id = t
             /\ seat.status = "Available" /\ seats[seat.seat_id].status = "Available"
             /\ seat.seat_class = p[1] /\ seats[seat.seat_id].seat_class = p[1]
       /\ \A s \in AvailableOf(t, c) :
             Cardinality({p \in Places(last) : b[p[1]][p[2]].seat_id = s}) = 1
       /\ \A cl \in DOMAIN b : \A i, j \in DOMAIN b[cl] :
             i < j => b[cl][i].fare >= b[cl][j].fare

\* C15 witness: an unfiltered query has succeeded on a train that has a
\* Reserved seat.
C15_Witness ==
    /\ last.req.op = "get_train_seats" /\ last.req.seat_class = "None"
    /\ last.resp.code = 200
    /\ \E s \in DOMAIN seats :
          seats[s].train_id = last.req.train_id /\ seats[s].status = "Reserved"

\* C16 (SpecSeats): get_train_seats with seat_class = C fails NotFound whenever
\* the train has no Available seat of class C, whatever its other classes;
\* without a class filter it fails NotFound exactly when the train has no
\* Available seat at all (a train that does not exist has none).
C16_SeatsNotFound ==
    last.req.op = "get_train_seats" =>
       LET t == last.req.train_id
           c == last.req.seat_class IN
       /\ (c # "None" /\ AvailableOf(t, c) = {}) => OutcomeKind(last.resp) = "NotFound"
       /\ c = "None" => (OutcomeKind(last.resp) = "NotFound" <=> AvailableOf(t, "None") = {})

\* C16 witness: a query for a class has failed NotFound on a train that has an
\* Available seat of another class.
C16_Witness ==
    /\ last.req.op = "get_train_seats" /\ last.req.seat_class # "None"
    /\ OutcomeKind(last.resp) = "NotFound"
    /\ AvailableOf(last.req.train_id, last.req.seat_class) = {}
    /\ AvailableOf(last.req.train_id, "None") # {}

\* the Available seats of class c of train t among the rows seat_rows
LiveCount(seat_rows, t, c) ==
    Cardinality({s \in DOMAIN seat_rows :
                    /\ seat_rows[s].train_id = t
                    /\ seat_rows[s].seat_class = c
                    /\ seat_rows[s].status = "Available"})

\* the count a TrainSummary reports for class c
Reported(summary, c) ==
    CASE c = "First" -> summary.available_seats_first
      [] c = "Business" -> summary.available_seats_business
      [] c = "Standard" -> summary.available_seats_standard

\* the step moves the status of seat s by a request answered with success:
\* the summary filter_trains builds for the train of s (routes.py 64-81, the
\* same for every request that returns the train) reports, for the class of
\* s, a count that differs by delta between just before and just after, and
\* the same counts for the other classes
CountsMove(s, delta) ==
    \A t \in {seats[s].train_id}, c \in {"First", "Business", "Standard"} :
       Reported(TrainResponse(t)', c) =
          Reported(TrainResponse(t), c) + (IF c = seats[s].seat_class THEN delta ELSE 0)

\* C14 (SpecLive): every train returned by filter_trains reports, for each of
\* the three classes and whatever the seat_class filter, the number of its
\* seats of the class that are Available in the store at the time of the
\* query; so a successful create_reservation on a seat lowers the count
\* reported for the class of the seat by one and the cancel_reservation of
\* that reservation raises it by one again.
C14_LiveCounts ==
    [][ /\ (last'.req.op = "filter_trains" /\ last'.resp.code = 200) =>
              \A k \in DOMAIN last'.resp.body :
                 \A c \in {"First", "Business", "Standard"} :
                    Reported(last'.resp.body[k], c) =
                       LiveCount(seats', last'.resp.body[k].train_id, c)
        /\ (last'.req.op = "create" /\ last'.resp.code = 200) =>
              CountsMove(last'.req.seat_id, 0 - 1)
        /\ (last'.req.op = "cancel" /\ last'.resp.code = 200) =>
              CountsMove(last'.resp.body[1].seat_id, 1)
      ]_vars

\* C14 witness: a query with a seat_class filter has returned a train that has
\* a Reserved seat and a seat released by a cancel_reservation.
C14_Witness ==
    /\ last.req.op = "filter_trains" /\ last.req.seat_class # "None"
    /\ last.resp.code = 200
    /\ \E k \in DOMAIN last.resp.body, s \in DOMAIN seats, i \in CancelledRows :
          /\ seats[s].train_id = last.resp.body[k].train_id
          /\ seats[s].status = "Reserved"
          /\ seats[reservations[i].seat_id].train_id = last.resp.body[k].train_id
          /\ seats[reservations[i].seat_id].status = "Available"

\* the query operations
QueryOps == {"filter_trains", "get_train_seats", "get_train", "get_seat",
             "get_client_reservations"}

\* C18 (SpecLive): a step in which filter_trains, get_train_seats, get_train,
\* get_seat or get_client_reservations is answered, with success or with
\* NotFound, leaves every Client, Train, Seat and Reservation record as it was.
C18_QueriesReadOnly ==
    [][ last'.req.op \in QueryOps =>
           /\ last'.resp.code \in {200, 404}
           /\ clients' = clients /\ trains' = trains
           /\ seats' = seats /\ reservations' = reservations ]_vars

\* C18 witness: a query has failed NotFound against a store that holds a
\* Reserved seat, a Confirmed and a Cancelled reservation.
C18_Witness ==
    /\ last.req.op \in QueryOps
    /\ OutcomeKind(last.resp) = "NotFound"
    /\ \E s \in DOMAIN seats : seats[s].status = "Reserved"
    /\ \E i \in DOMAIN reservations : reservations[i].status = "Confirmed"
    /\ CancelledRows # {}

C19_ReservationsImmutable ==
    [][ /\ Len(reservations') >= Len(reservations)
        /\ \A i \in DOMAIN reservations :
              /\ i \in DOMAIN reservations'
              /\ reservations'[i].client_id = reservations[i].client_id
              /\ reservations'[i].seat_id = reservations[i].seat_id
              /\ reservations'[i].ticket_type = reservations[i].ticket_type
              /\ reservations'[i].status # reservations[i].status =>
                    /\ reservations[i].status = "Confirmed"
                    /\ reservations'[i].status = "Cancelled"
                    /\ last'.req = CancelRequest(i) /\ last'.resp.code = 200
        /\ (last'.req.op = "create" /\ last'.resp.code = 200) =>
              /\ last'.resp.body[1].reservation_id \notin DOMAIN reservations
              /\ last'.resp.body[1].reservation_id \in DOMAIN reservations'
      ]_vars

\* C19 witness: a client has a Cancelled reservation and, made after it, a
\* Confirmed reservation of another seat with another ticket_type.
C19_Witness ==
    \E i, j \in DOMAIN reservations :
        /\ i < j
        /\ reservations[i].status = "Cancelled" /\ reservations[j].status = "Confirmed"
        /\ reservations[i].client_id = reservations[j].client_id
        /\ reservations[i].seat_id # reservations[j].seat_id
        /\ reservations[i].ticket_type # reservations[j].ticket_type

\* C20 (SpecRegister): under any interleaving of register_user calls through
\* the two front-ends no two clients have the same username; a call answered
\* while a client has its username fails and adds no client, and a call is
\* answered with success only in the step that adds its client.
C20_UsernamesUnique ==
    [][ /\ \A i, j \in DOMAIN clients' :
              i # j => clients'[i].username # clients'[j].username
        /\ (Answers /\ last'.req.op = "register_user") =>
              LET u == last'.req.username
                  holders == {i \in DOMAIN clients : clients[i].username = u} IN
              /\ holders # {} =>
                    /\ last'.resp # Registered(last'.req.front)
                    /\ clients' = clients
              /\ last'.resp = Registered(last'.req.front) <=> clients' = Append(clients, [username |-> u])
      ]_vars

\* C20 witness: of two concurrent calls with the same new username, one through
\* each front-end, one has added the client and the other has just failed at
\* its commit.
C20_Witness ==
    /\ last.req.op = "register_user"
    /\ last.resp = IntegrityError(last.req.front)
    /\ last.req.username # "testuser"
    /\ Cardinality({i \in DOMAIN clients : clients[i].username = last.req.username}) = 1

\* the step is the commit of the cancel_reservation worker w is handling, and
\* the call returns its success
CancelSucceeds(w) == pc[w] = "cancel_commit" /\ pc'[w] = "idle" /\ last'.resp.code = 200

\* C21 (Spec): the store serializes concurrent cancel_reservation calls.  Of
\* the calls on one Confirmed reservation only one succeeds, the others fail
\* with the already-cancelled outcome: a cancel that returns success finds the
\* reservation Confirmed in the store when it commits.  A cancel of R that
\* commits after R was cancelled by another request leaves the seat of R as it
\* is when a different reservation on the seat is Confirmed.
C21_CancelsSerialized ==
    [][ \A w \in Workers :
           (pc[w] = "cancel_commit" /\ pc'[w] = "idle") =>
              LET i == loaded[w].reservation_id
                  s == reservations[i].seat_id IN
              /\ last'.resp.code = 200 => reservations[i].status = "Confirmed"
              /\ reservations[i].status = "Cancelled" =>
                    last'.resp = AlreadyCancelled
              /\ (reservations[i].status = "Cancelled" /\ ConfirmedOn(s) \ {i} # {}) =>
                    seats'[s].status = seats[s].status
      ]_vars

\* the failures of create_reservation and of cancel_reservation
CreateFailures ==
    {HTTPException(400, "Invalid ticket type. Must be 'Flexible' or 'NonFlexible'."),
     HTTPException(404, "Client not found."),
     HTTPException(404, "Seat not found or already reserved.")}

CancelFailures ==
    {HTTPException(404, "Reservation not found."),
     HTTPException(400, "Reservation is already cancelled."),
     HTTPException(404, "Associated seat not found.")}

\* C22 (SpecSeq): a create_reservation or cancel_reservation that fails leaves
\* the store unchanged.  Every answer of the two operations is the success or
\* one of the failures listed; the step that returns a failure changes no
\* table; and a step that changes a table is the commit of a call that
\* returns the success, so no step of a failing call adds a reservation or
\* modifies a seat status or a reservation status.
C22_FailuresChangeNothing ==
    [][ /\ (Answers /\ last'.req.op = "create") =>
              last'.resp.code = 200 \/ last'.resp \in CreateFailures
        /\ (Answers /\ last'.req.op = "cancel") =>
              last'.resp.code = 200 \/ last'.resp \in CancelFailures
        /\ (Answers /\ last'.req.op \in {"create", "cancel"} /\ last'.resp.code # 200) =>
              store' = store
        /\ store' # store =>
              \E w \in Workers :
                 \/ pc[w] = "create_commit" /\ pc'[w] = "create_respond"
                 \/ pc[w] = "cancel_commit" /\ pc'[w] = "idle" /\ last'.resp.code = 200
        /\ \A w \in Workers :
              (pc[w] = "create_respond" /\ pc'[w] # "create_respond") =>
                 last'.resp.code = 200 /\ store' = store
      ]_vars

\* C22 witness: a cancel_reservation has just failed on a reservation that is
\* already Cancelled while another reservation holds its seat: the seat is
\* still Reserved.
C22_Witness ==
    /\ last.req.op = "cancel"
    /\ last.resp \in CancelFailures
    /\ last.req.reservation_id \in CancelledRows
    /\ LET s == reservations[last.req.reservation_id].seat_id IN
       /\ seats[s].status = "Reserved"
       /\ ConfirmedOn(s) # {}

\* the Cancelled reservations on seat s
CancelledOn(s) == {i \in CancelledRows : reservations[i].seat_id = s}

\* the request answered by the step is a create_reservation on a released
\* seat (it has Cancelled reservations and no Confirmed one) with an existing
\* client and a valid ticket_type
RebooksReleased ==
    /\ last'.req.op = "create"
    /\ ClientExists(last'.req.client_id)
    /\ last'.req.ticket_type \in {"Flexible", "NonFlexible"}
    /\ CancelledOn(last'.req.seat_id) # {}
    /\ ConfirmedOn(last'.req.seat_id) = {}

SeatReferenced(q) ==
    CASE q.op = "create" -> q.seat_id
      [] q.op = "cancel" /\ q.reservation_id \in DOMAIN reservations ->
            reservations[q.reservation_id].seat_id
      [] OTHER -> 0

\* C24 (SpecLive): trains and the static fields of seats are read-only for
\* the engine.  No create_reservation, cancel_reservation or query adds,
\* removes or modifies a train, adds or removes a seat, or changes the
\* train_id, seat_class or fare of a seat; a step changes the status of a seat
\* only when its request is a create_reservation or a cancel_reservation that
\* succeeds and the seat is the one the request references.
C24_TrainsAndSeatsStatic ==
    [][ /\ trains' = trains
        /\ DOMAIN seats' = DOMAIN seats
        /\ \A s \in DOMAIN seats :
              /\ seats'[s].train_id = seats[s].train_id
              /\ seats'[s].seat_class = seats[s].seat_class
              /\ seats'[s].fare = seats[s].fare
              /\ seats'[s].status # seats[s].status =>
                    /\ last'.req.op \in {"create", "cancel"}
                    /\ last'.resp.code = 200
                    /\ SeatReferenced(last'.req) = s
      ]_vars

\* C24 witness: with one seat of a train booked and another seat of the same
\* train booked and released, a query has been answered.
C24_Witness ==
    /\ last.req.op \in QueryOps
    /\ \E i \in CancelledRows, j \in DOMAIN reservations :
          /\ reservations[j].status = "Confirmed"
          /\ reservations[i].seat_id # reservations[j].seat_id
          /\ seats[reservations[i].seat_id].train_id = seats[reservations[j].seat_id].train_id
          /\ seats[reservations[i].seat_id].status = "Available"
          /\ seats[reservations[j].seat_id].status = "Reserved"

\* the seats of train t
SeatsOf(t) == {s \in DOMAIN seats : seats[s].train_id = t}

\* C25 (SpecSeed): whatever the random values, every train the seed generator
\* has committed departs before it arrives, from a station different from the
\* station of arrival; every seat belongs to a committed train, has a class
\* among First, Business and Standard and is Available; no reservation
\* exists, so no seat is Reserved and none has a Confirmed reservation; and in
\* the store the generator leaves every train has between min_seats and
\* max_seats seats.
C25_SeededStoreValid ==
    /\ \A t \in DOMAIN trains :
          /\ trains[t].departure_datetime < trains[t].arrival_datetime
          /\ trains[t].departure_station # trains[t].arrival_station
          /\ {trains[t].departure_station, trains[t].arrival_station} \subseteq stations
    /\ \A s \in DOMAIN seats :
          /\ seats[s].train_id \in DOMAIN trains
          /\ seats[s].seat_class \in {"First", "Business", "Standard"}
          /\ seats[s].status = "Available"
          /\ (seats[s].status = "Reserved") = (ConfirmedOn(s) # {})
    /\ reservations = <<>>
    /\ \A t \in DOMAIN trains :
          (t < Len(trains) \/ Seeded) =>
             /\ min_seats <= Cardinality(SeatsOf(t))
             /\ Cardinality(SeatsOf(t)) <= max_seats
    /\ Seeded => Len(clients) = NumClients /\ Len(trains) = num_trains

\* C25 witness: the generator has finished; one train has min_seats seats and
\* another max_seats seats of more than one class, and a train arrives the
\* shortest time after its departure.
C25_Witness ==
    /\ Seeded
    /\ \E t, u \in DOMAIN trains :
          /\ Cardinality(SeatsOf(t)) = min_seats
          /\ Cardinality(SeatsOf(u)) = max_seats
          /\ \E a, b \in SeatsOf(u) : seats[a].seat_class # seats[b].seat_class
    /\ \E t \in DOMAIN trains :
          trains[t].arrival_datetime = trains[t].departure_datetime + 3600

=============================================================================
